---------------------------- MODULE Spec2Model ----------------------------
(***************************************************************************)
(* Model of the model_datasets package: the LM4 model-output accessor      *)
(* (src/src/model_datasets/output.py), its calendar reconciliation and     *)
(* variable classification, the forcing accessor                           *)
(* (src/src/model_datasets/forcing.py), the paths the two build when they  *)
(* are constructed, and the observation accessor                           *)
(* (src/src/model_datasets/gamut.py).                                      *)
(*                                                                         *)
(* Timestamps are whole hours counted from 0001-01-01 00:00 of the         *)
(* proleptic Gregorian calendar (pandas' calendar).  A raw timestamp of a  *)
(* diagnostic is a record [y, m, d, H] of the model-internal calendar,     *)
(* which is Julian (forcing.py:84): every fourth year is a leap year, so   *)
(* the raw axis contains 1900-02-29.                                       *)
(***************************************************************************)
EXTENDS Integers, Sequences, FiniteSets, TLC

VARIABLES
    \* the model-output accessor and the history directory it reads
    files,          \* diagnostics that have a file in history_path
    dailyAxis,      \* << first, last >> raw timestamps of the land_daily file
    diagnostics,    \* self.diagnostics: diagnostic name -> dataset handle
    opens,          \* how often xr.open_dataset was called, per diagnostic
    closed,         \* the handles close() has been called on
    last,           \* the last call on the accessor and what it returned
    \* the calendar reconciliation on its own
    calFirst, calLast, calOut,
    \* the variable classification on its own
    clsCatalog, clsVars, clsOut,
    \* the forcing accessor
    netcdf,         \* self.netcdf: the samples of the forcing file
    netcdfOpen,     \* whether self.netcdf has not been closed
    fLast,          \* the last call on the forcing accessor and its result
    fPrev,          \* the get_looped_data call before that
    \* the construction of the two accessors
    pathArgs,       \* the arguments (site, forcing_string, version, spinup)
    historyPath,    \* self.history_path of the LM4ModelOutput made from them
    forcingPath,    \* self.forcing_path of the LM4Forcing made from them
    \* the observation accessor (GamutDataset)
    gamutSite,      \* self.site
    gamutDir,       \* whether the site's directory exists, and its listing
    gamutOut        \* what find_files returned or raised

outputVars == << files, dailyAxis, diagnostics, opens, closed, last >>

calVars == << calFirst, calLast, calOut >>

clsVarsAll == << clsCatalog, clsVars, clsOut >>

forcingVars == << netcdf, netcdfOpen, fLast, fPrev >>

pathVars == << pathArgs, historyPath, forcingPath >>

gamutVars == << gamutSite, gamutDir, gamutOut >>

vars == << files, dailyAxis, diagnostics, opens, closed, last,
           calFirst, calLast, calOut, clsCatalog, clsVars, clsOut,
           netcdf, netcdfOpen, fLast, fPrev,
           pathArgs, historyPath, forcingPath,
           gamutSite, gamutDir, gamutOut >>

-----------------------------------------------------------------------------
(* Bounds of the model.                                                    *)

\* days of the raw axis window before 29 February
DaysBefore == 3
\* days of the raw axis window from 1 March on
DaysAfter == 3
\* longest variable list handed to get_data
MaxVars == 2
\* size of the cohort axis of the diagnostics
NCohorts == 2
\* most calendar days in a forcing file
MaxDays == 4
\* longest site name handed to a constructor
MaxSite == 3
\* most files in the directory of an observation site
MaxFiles == 2

-----------------------------------------------------------------------------
(* Calendars.                                                              *)

IsLeapGregorian(y) == (y % 4 = 0 /\ y % 100 # 0) \/ y % 400 = 0

IsLeapJulian(y) == y % 4 = 0

DaysInMonth(leap, m) ==
    CASE m = 2 -> IF leap THEN 29 ELSE 28
      [] m \in {4, 6, 9, 11} -> 30
      [] OTHER -> 31

DaysBeforeMonth(leap, m) ==
    << 0, 31, 59, 90, 120, 151, 181, 212, 243, 273, 304, 334 >>[m]
        + (IF leap /\ m > 2 THEN 1 ELSE 0)

\* day number of a Gregorian date, 0001-01-01 being day 1
GregorianOrdinal(y, m, d) ==
    365 * (y - 1) + ((y - 1) \div 4) - ((y - 1) \div 100) + ((y - 1) \div 400)
        + DaysBeforeMonth(IsLeapGregorian(y), m) + d

\* day count of a date of the model-internal (Julian) calendar
JulianOrdinal(y, m, d) ==
    365 * (y - 1) + ((y - 1) \div 4) + DaysBeforeMonth(IsLeapJulian(y), m) + d

\* number of entries of a raw daily axis running from raw day a to raw day b
RawAxisLength(a, b) == JulianOrdinal(b.y, b.m, b.d) - JulianOrdinal(a.y, a.m, a.d) + 1

\* strftime('%Y-%m-%d 12:00') of a raw timestamp: the date fields are kept,
\* the time of day is replaced by noon
StrftimeNoon(raw) == [y |-> raw.y, m |-> raw.m, d |-> raw.d, H |-> 12]

\* pd.Timestamp(text) raises ValueError when the text names no Gregorian day
TimestampParses(s) ==
    /\ s.m \in 1..12
    /\ s.d \in 1..DaysInMonth(IsLeapGregorian(s.y), s.m)

\* pd.Timestamp(text), for a text that parses
Timestamp(s) == 24 * (GregorianOrdinal(s.y, s.m, s.d) - 1) + s.H

\* pd.Timestamp('1900-03-01')
Cutoff == Timestamp([y |-> 1900, m |-> 3, d |-> 1, H |-> 0])

\* pd.date_range(start=start, end=end, freq='D')
DateRange(start, end) ==
    IF end < start THEN << >>
    ELSE [i \in 1..((end - start) \div 24 + 1) |-> start + 24 * (i - 1)]

CorrectedEnd_NoLeapDay(model_start, model_end) == model_end

\* output.py:91-94: the end of the index, moved one day when the run starts
\* before 1 March 1900
CorrectedEnd(model_start, model_end) ==
    IF model_start < Cutoff THEN model_end + 24 ELSE model_end

\* output.py:82-96: the gregorian index of a daily axis whose first and
\* last raw timestamps are time_first and time_last
ReconcileDaily(time_first, time_last) ==
    LET model_start_str == StrftimeNoon(time_first)
        model_end_str == StrftimeNoon(time_last)
    IN  IF ~TimestampParses(model_start_str) \/ ~TimestampParses(model_end_str)
        THEN [status |-> "BadDate", index |-> << >>]
        ELSE LET model_start == Timestamp(model_start_str)
                 model_end == CorrectedEnd(model_start, Timestamp(model_end_str))
             IN  [status |-> "ok", index |-> DateRange(model_start, model_end)]

-----------------------------------------------------------------------------
(* Raw daily axes: the days around 29 February of a year.                  *)

WindowYears == {1900, 1904}

RawHours == {0, 12}

WindowDays(y) ==
    {[y |-> y, m |-> 2, d |-> 29 - k] : k \in 1..DaysBefore}
        \cup (IF IsLeapJulian(y) THEN {[y |-> y, m |-> 2, d |-> 29]} ELSE {})
        \cup {[y |-> y, m |-> 3, d |-> k] : k \in 1..DaysAfter}

RawStamps(y) == {[y |-> r.y, m |-> r.m, d |-> r.d, H |-> h] : r \in WindowDays(y), h \in RawHours}

\* the (first, last) pairs of an ordered raw axis
RawAxes ==
    {p \in UNION {RawStamps(y) \X RawStamps(y) : y \in WindowYears} :
        24 * JulianOrdinal(p[1].y, p[1].m, p[1].d) + p[1].H
            <= 24 * JulianOrdinal(p[2].y, p[2].m, p[2].d) + p[2].H}

NoResult == [status |-> "none", index |-> << >>]

-----------------------------------------------------------------------------
(* The history directory and the contents of its diagnostic files.         *)

DiagNames == {"land_daily", "land_month", "land_static"}

Stamp(y, m, d, H) == [y |-> y, m |-> m, d |-> d, H |-> H]

\* the raw time axis of the monthly file: mid-month stamps of the model calendar
MonthAxis == << Stamp(1900, 1, 16, 12), Stamp(1900, 2, 15, 12), Stamp(1900, 3, 16, 12) >>

StaticAxis == << Stamp(1900, 1, 1, 0) >>

\* the history directories the accessor is checked on
Histories == SUBSET DiagNames

\* the daily files the accessor is checked on: a run that ends before
\* 1 March 1900, one that spans 29 February 1900, one that starts after it
DailyAxes ==
    { << Stamp(1900, 2, 27, 12), Stamp(1900, 2, 28, 12) >>,
      << Stamp(1900, 2, 28, 12), Stamp(1900, 3, 2, 12) >>,
      << Stamp(1900, 3, 1, 12), Stamp(1900, 3, 3, 12) >> }

\* diagnostic.data_vars with each variable's dims
Catalog ==
    [v \in {"snow_depth", "soil_T", "sw_band", "height", "geolon_t"} |->
        CASE v = "snow_depth" -> {"time", "grid_index"}
          [] v = "soil_T" -> {"time", "zfull_soil", "grid_index"}
          [] v = "sw_band" -> {"time", "band", "grid_index"}
          [] v = "height" -> {"time", "cohort", "grid_index"}
          [] v = "geolon_t" -> {"grid_index"}]

\* the order of diagnostic.data_vars
DataVars == << "snow_depth", "soil_T", "sw_band", "height", "geolon_t" >>

\* the zfull_soil coordinate, in hundredths
SoilLevels == << 2, 6 >>

VarPool == DOMAIN Catalog \cup {"not_a_variable"}

SeqsUpTo(S, n) == UNION {[1..k -> S] : k \in 0..n}

\* the variable lists handed to get_data: no name twice
VarLists ==
    {vs \in SeqsUpTo(VarPool, MaxVars) :
        \A i, j \in DOMAIN vs : vs[i] = vs[j] => i = j}

TimeLength(diag) ==
    CASE diag = "land_daily" -> RawAxisLength(dailyAxis[1], dailyAxis[2])
      [] diag = "land_month" -> Len(MonthAxis)
      [] OTHER -> Len(StaticAxis)

-----------------------------------------------------------------------------
(* The variable classification of get_data.                                *)

\* output.py:124-138: the group of a variable of the catalog
Classify(dims) ==
    IF "zfull_soil" \in dims THEN "soil"
    ELSE IF "band" \in dims THEN "radiation"
    ELSE IF "grid_index" \in dims /\ "time" \in dims THEN "normal"
    ELSE "unsupported"

\* output.py:116-138: one pass of the loop
GroupOf(var, catalog) ==
    IF var \notin DOMAIN catalog THEN "not found" ELSE Classify(catalog[var])

InGroup(vs, catalog, g) == SelectSeq(vs, LAMBDA v : GroupOf(v, catalog) = g)

\* output.py:111-138: data_groups after the loop
DataGroups(vs, catalog) ==
    [normal |-> InGroup(vs, catalog, "normal"),
     soil |-> InGroup(vs, catalog, "soil"),
     radiation |-> InGroup(vs, catalog, "radiation")]

\* output.py:120, 138: the warnings of the loop, in order
LoopWarnings(vs, catalog) ==
    LET bad == SelectSeq(vs, LAMBDA v : GroupOf(v, catalog) \in {"not found", "unsupported"})
    IN  [i \in DOMAIN bad |-> << bad[i], GroupOf(bad[i], catalog) >>]

\* the axes a variable of a diagnostic can have
Axes == {"time", "grid_index", "zfull_soil", "band", "cohort"}

ClsNames == {"var_a", "var_b"}

\* every catalog of at most two variables
ClsCatalogs == UNION {[names -> SUBSET Axes] : names \in SUBSET ClsNames}

ClsLists ==
    {vs \in SeqsUpTo(ClsNames, MaxVars) :
        vs # << >> /\ \A i, j \in DOMAIN vs : vs[i] = vs[j] => i = j}

NoGroups == [data_groups |-> << >>, warnings |-> << >>]

ClsIdle ==
    /\ clsCatalog = << >>
    /\ clsVars = << >>
    /\ clsOut = NoGroups

ClsInit ==
    /\ clsCatalog \in ClsCatalogs
    /\ clsVars \in ClsLists
    /\ clsOut = NoGroups

\* the loop of get_data, output.py:111-138, on a request and a catalog
ClassifyRequest ==
    /\ clsOut = NoGroups
    /\ clsOut' = [data_groups |-> DataGroups(clsVars, clsCatalog),
                  warnings |-> LoopWarnings(clsVars, clsCatalog)]
    /\ UNCHANGED << clsCatalog, clsVars >>

-----------------------------------------------------------------------------
(* The forcing accessor (LM4Forcing).                                      *)

ForcingYears == 1950..2050

\* the Gregorian date of a timestamp
DateOf(t) ==
    LET n == t \div 24 + 1
        y == CHOOSE y \in ForcingYears :
                 GregorianOrdinal(y, 1, 1) <= n /\ n < GregorianOrdinal(y + 1, 1, 1)
        m == CHOOSE m \in 1..12 :
                 /\ GregorianOrdinal(y, m, 1) <= n
                 /\ n <= GregorianOrdinal(y, m, DaysInMonth(IsLeapGregorian(y), m))
    IN  [y |-> y, m |-> m, d |-> n - GregorianOrdinal(y, m, 1) + 1, H |-> t % 24]

\* the first days of the forcing files the accessor is checked on
ForcingStarts == {Stamp(2010, 1, 1, 0), Stamp(2011, 12, 31, 0)}

\* a forcing file of n calendar days: two samples on every day but the
\* last, which holds the first sample of the next cycle only
Samples(start, n) ==
    [k \in 1..(2 * (n - 1) + 1) |->
        [t |-> Timestamp(start) + 12 * (k - 1),
         v |-> 10 * ((k + 1) \div 2) + (IF k % 2 = 1 THEN -1 ELSE 1)]]

ForcingFiles == {Samples(start, n) : start \in ForcingStarts, n \in 2..MaxDays}

\* self.netcdf.data_vars
ForcingDataVars == {"Tair"}

ForcingNames == ForcingDataVars \cup {"not_a_variable"}

SpinUpYears == {0, 5, 10, 15, 20}

RECURSIVE Sum(_)
Sum(xs) == IF xs = << >> THEN 0 ELSE Head(xs) + Sum(Tail(xs))

\* forcing.py:76: data.resample('D').mean(): one entry per calendar day from
\* the first to the last sample, stamped at midnight
ResampleDailyMean(data) ==
    LET day0 == data[1].t \div 24
        dayN == data[Len(data)].t \div 24
        bin(i) == SelectSeq(data, LAMBDA s : s.t \div 24 = day0 + i - 1)
    IN  [i \in 1..(dayN - day0 + 1) |->
            [t |-> 24 * (day0 + i - 1),
             v |-> IF bin(i) = << >> THEN "NaN"
                   ELSE Sum([j \in DOMAIN bin(i) |-> bin(i)[j].v]) \div Len(bin(i))]]

ValidSpinUp_MultipleOfFive(spin_up_years) == spin_up_years % 5 = 0

\* forcing.py:69: the spin-up period is a multiple of 10
ValidSpinUp(spin_up_years) == spin_up_years % 10 = 0

\* forcing.py:81: int(spin_up_years / 10)
Repetitions(spin_up_years) ==
    IF spin_up_years >= 0 THEN spin_up_years \div 10 ELSE -((-spin_up_years) \div 10)

RECURSIVE Tile(_, _)
\* forcing.py:81: [piece] * n, concatenated; n <= 0 gives the empty list
Tile(piece, n) == IF n <= 0 THEN << >> ELSE piece \o Tile(piece, n - 1)

NoSeries == [status |-> "none", read |-> FALSE, values |-> << >>, index |-> << >>]

\* forcing.py:60-93: get_looped_data; readable tells whether the values of
\* self.netcdf can be read
GetLoopedSeries(var_name, spin_up_years, data, readable) ==
    IF ~ValidSpinUp(spin_up_years) THEN [NoSeries EXCEPT !.status = "InvalidArgument"]
    ELSE IF var_name \notin ForcingDataVars
    THEN [NoSeries EXCEPT !.status = "KeyError", !.read = TRUE]
    ELSE IF ~readable THEN [NoSeries EXCEPT !.status = "Closed", !.read = TRUE]
    ELSE
        LET data_daily == ResampleDailyMean(data)
            piece == SubSeq(data_daily, 1, Len(data_daily) - 1)
            n == Repetitions(spin_up_years)
            looped == Tile([i \in DOMAIN piece |-> piece[i].v], n)
            model_start_year == DateOf(data_daily[Len(data_daily)].t).y - spin_up_years
            model_start == [DateOf(data_daily[1].t) EXCEPT !.y = model_start_year]
        IN  IF n <= 0
            THEN [NoSeries EXCEPT !.status = "NoObjects", !.read = TRUE]
            ELSE IF ~TimestampParses(model_start)
            THEN [NoSeries EXCEPT !.status = "BadDate", !.read = TRUE]
            ELSE [status |-> "ok", read |-> TRUE, values |-> looped,
                  index |-> [i \in DOMAIN looped |->
                                Timestamp(model_start) + 24 * (i - 1) + 12]]

\* forcing.py:47-57: get_data
GetSeries(var_name, data, readable) ==
    IF var_name \notin ForcingDataVars
    THEN [NoSeries EXCEPT !.status = "NotFound"]
    ELSE IF ~readable THEN [NoSeries EXCEPT !.status = "Closed", !.read = TRUE]
    ELSE [status |-> "ok", read |-> TRUE,
          values |-> [i \in DOMAIN data |-> data[i].v],
          index |-> [i \in DOMAIN data |-> data[i].t]]

FCall(op, var_name, spin_up_years, r, before) ==
    [op |-> op, var_name |-> var_name, spin_up_years |-> spin_up_years,
     result |-> r, before |-> before]

NoFCall == FCall("none", "", 0, NoSeries, NoSeries)

ForcingIdle ==
    /\ netcdf = << >>
    /\ netcdfOpen = FALSE
    /\ fLast = NoFCall
    /\ fPrev = NoFCall

\* __init__, forcing.py:23-32: the file is opened
ForcingInit ==
    /\ netcdf \in ForcingFiles
    /\ netcdfOpen = TRUE
    /\ fLast = NoFCall
    /\ fPrev = NoFCall

\* get_data(var_name)
ForcingGetData(var_name) ==
    \E readable \in BOOLEAN :
        /\ fLast = NoFCall
        /\ ~readable => ~netcdfOpen
        /\ fLast' = FCall("get_data", var_name, 0,
                          GetSeries(var_name, netcdf, readable), NoSeries)
        /\ UNCHANGED << netcdf, netcdfOpen, fPrev >>

\* get_looped_data(var_name, spin_up_years); before is what the call before
\* this one returned when it had the same arguments
GetLoopedData(var_name, spin_up_years) ==
    \E readable \in BOOLEAN :
        /\ fLast = NoFCall
        /\ ~readable => ~netcdfOpen
        /\ \E r \in {GetLoopedSeries(var_name, spin_up_years, netcdf, readable)} :
               /\ fLast' = FCall("get_looped_data", var_name, spin_up_years, r,
                                 IF fPrev.var_name = var_name
                                        /\ fPrev.spin_up_years = spin_up_years
                                 THEN fPrev.result ELSE NoSeries)
               /\ fPrev' = FCall("get_looped_data", var_name, spin_up_years, r, NoSeries)
        /\ UNCHANGED << netcdf, netcdfOpen >>

\* close(), forcing.py:95-99
ForcingClose ==
    /\ fLast = NoFCall
    /\ netcdfOpen' = FALSE
    /\ fLast' = FCall("close", "", 0, [NoSeries EXCEPT !.status = "ok"], NoSeries)
    /\ UNCHANGED << netcdf, fPrev >>

\* the caller takes the result of the call and goes on
ForcingReturn ==
    /\ fLast # NoFCall
    /\ fLast' = NoFCall
    /\ UNCHANGED << netcdf, netcdfOpen, fPrev >>

-----------------------------------------------------------------------------
(* The construction of the accessors: the paths they build.  A text is a   *)
(* sequence of characters.                                                 *)

\* the characters of the site names the constructors are checked on
SiteChars == {"T", "g", " "}

\* str.lower() on one character
Lower(ch) == IF ch = "T" THEN "t" ELSE ch

\* output.py:23, forcing.py:23: site.replace(' ', '').lower()
NormalizeSite(site) ==
    LET replaced == SelectSeq(site, LAMBDA ch : ch # " ")
    IN  [i \in DOMAIN replaced |-> Lower(replaced[i])]

\* os.path.join(path, b): an absolute b replaces path, and no separator
\* is added after an empty path or one that ends with a separator
JoinTwo(path, b) ==
    IF b # << >> /\ Head(b) = "/" THEN b
    ELSE IF path = << >> \/ path[Len(path)] = "/" THEN path \o b
    ELSE path \o << "/" >> \o b

RECURSIVE Join(_)
\* os.path.join(parts[1], ..., parts[n])
Join(parts) ==
    IF Len(parts) = 1 THEN parts[1]
    ELSE JoinTwo(Join(SubSeq(parts, 1, Len(parts) - 1)), parts[Len(parts)])

\* output.py:9: the configured output root
OUTPUT_PATH == << "/", "o", "u", "t" >>

\* forcing.py:9: the configured forcing root
FORCING_PATH == << "/", "f", "r", "c" >>

\* output.py:26-29: self.history_path
HistoryPath(site, forcing_string, version, spinup) ==
    LET self_site == NormalizeSite(site)
    IN  IF spinup
        THEN Join(<< OUTPUT_PATH, self_site,
                     self_site \o << "_", "s", "p", "i", "n", "u", "p", "_", "v" >>
                         \o version,
                     << "h", "i", "s", "t", "o", "r", "y" >> >>)
        ELSE Join(<< OUTPUT_PATH, self_site,
                     self_site \o << "_", "s" >> \o forcing_string \o << "_", "v" >>
                         \o version,
                     << "h", "i", "s", "t", "o", "r", "y" >> >>)

\* forcing.py:26-29: self.forcing_path
ForcingPath(site, forcing_string, version, spinup) ==
    LET self_site == NormalizeSite(site)
    IN  IF spinup
        THEN Join(<< FORCING_PATH, self_site,
                     self_site \o << "_", "s", "p", "i", "n", "u", "p", "_", "s" >>
                         \o forcing_string \o << "_", "v" >> \o version
                         \o << ".", "n", "c" >> >>)
        ELSE Join(<< FORCING_PATH, self_site,
                     self_site \o << "_", "s" >> \o forcing_string \o << "_", "v" >>
                         \o version \o << ".", "n", "c" >> >>)

\* the site names the constructors are checked on: each has a letter
Sites ==
    {site \in SeqsUpTo(SiteChars, MaxSite) : \E i \in DOMAIN site : site[i] # " "}

ForcingStrings == {<< "0", "0" >>, << "0", "1" >>}

Versions == {<< "0", ".", "1" >>, << "2" >>}

PathArgs == [site : Sites, forcing_string : ForcingStrings, version : Versions,
             spinup : BOOLEAN]

\* no path built yet
NoPath == << >>

\* the constructors while another component is checked
PathIdle ==
    /\ pathArgs = [site |-> << "g" >>, forcing_string |-> << "0", "0" >>,
                   version |-> << "2" >>, spinup |-> FALSE]
    /\ historyPath = NoPath
    /\ forcingPath = NoPath

PathInit ==
    /\ pathArgs \in PathArgs
    /\ historyPath = NoPath
    /\ forcingPath = NoPath

\* LM4ModelOutput(site, forcing_string, version, spinup), output.py:15-32
NewModelOutput ==
    /\ historyPath = NoPath
    /\ historyPath' = HistoryPath(pathArgs.site, pathArgs.forcing_string,
                                  pathArgs.version, pathArgs.spinup)
    /\ diagnostics' = << >>
    /\ UNCHANGED << pathArgs, forcingPath, files, dailyAxis, opens, closed, last >>

\* LM4Forcing(site, forcing_string, version, spinup), forcing.py:15-32; the
\* file at the path is there or xr.open_dataset raises
NewForcing ==
    \E found \in BOOLEAN :
        /\ forcingPath = NoPath
        /\ forcingPath' = ForcingPath(pathArgs.site, pathArgs.forcing_string,
                                      pathArgs.version, pathArgs.spinup)
        /\ netcdfOpen' = found
        /\ netcdf' = IF found THEN Samples(Stamp(2010, 1, 1, 0), 2) ELSE << >>
        /\ UNCHANGED << pathArgs, historyPath, fLast, fPrev >>

-----------------------------------------------------------------------------
(* The observation accessor (GamutDataset).  A file name is a sequence of  *)
(* characters.                                                             *)

\* gamut.py:15: the site names that have an abbreviation
site_abbrev == [site \in {"Tony Grove"} |-> << "T", "G" >>]

\* the site names the accessor is made with
GamutSites == {"Tony Grove", "tony grove", "Franklin Basin"}

\* str.startswith
StartsWith(text, prefix) ==
    Len(prefix) <= Len(text) /\ SubSeq(text, 1, Len(prefix)) = prefix

\* str.endswith
EndsWith(text, suffix) ==
    /\ Len(suffix) <= Len(text)
    /\ SubSeq(text, Len(text) - Len(suffix) + 1, Len(text)) = suffix

\* a file named by the convention LR_<abbrev>_C_<variable><extension>
FileName(abbrev, variable, extension) ==
    << "L", "R", "_" >> \o abbrev \o << "_", "C", "_" >> \o variable \o extension

\* the files a site directory is filled from
FilePool ==
    { FileName(<< "T", "G" >>, << "a" >>, << ".", "c", "s", "v" >>),
      FileName(<< "T", "G" >>, << "b" >>, << ".", "c", "s", "v" >>),
      FileName(<< "T", "G" >>, << "a" >>, << ".", "t", "x", "t" >>),
      FileName(<< "F", "B" >>, << "a" >>, << ".", "c", "s", "v" >>),
      << "a", ".", "c", "s", "v" >> }

\* a site directory holding the files of a listing
Dir(listing) == [exists |-> TRUE, listing |-> listing]

\* the site directory does not exist
Missing == [exists |-> FALSE, listing |-> << >>]

\* what os.listdir(site_dir) gives: the files in some order, no name twice
Listings ==
    {fs \in SeqsUpTo(FilePool, MaxFiles) :
        \A i, j \in DOMAIN fs : fs[i] = fs[j] => i = j}

NoFiles == [status |-> "none", site_files |-> << >>]

\* gamut.py:35: the test of one file; site_abbrev[self.site] is looked up
\* when the test is evaluated
Matches(file, site) ==
    /\ StartsWith(file, << "L", "R", "_" >> \o site_abbrev[site] \o << "_", "C" >>)
    /\ EndsWith(file, << ".", "c", "s", "v" >>)

\* gamut.py:26-38: find_files on a site and its directory
FindFilesIn(site, dir) ==
    IF ~dir.exists THEN [NoFiles EXCEPT !.status = "NotFound"]
    ELSE IF dir.listing # << >> /\ site \notin DOMAIN site_abbrev
    THEN [NoFiles EXCEPT !.status = "KeyError"]
    ELSE [status |-> "ok",
          site_files |-> SelectSeq(dir.listing, LAMBDA file : Matches(file, site))]

\* the observation accessor while another component is checked
GamutIdle ==
    /\ gamutSite = "Tony Grove"
    /\ gamutDir = Dir(<< >>)
    /\ gamutOut = NoFiles

\* GamutDataset(site), gamut.py:18-24
GamutInit ==
    /\ gamutSite \in GamutSites
    /\ gamutDir \in {Dir(listing) : listing \in Listings} \cup {Missing}
    /\ gamutOut = NoFiles

\* find_files()
FindFiles ==
    /\ gamutOut = NoFiles
    /\ gamutOut' = FindFilesIn(gamutSite, gamutDir)
    /\ UNCHANGED << gamutSite, gamutDir >>

-----------------------------------------------------------------------------
(* The model-output accessor (LM4ModelOutput).                             *)

Cache == [diagnostics |-> diagnostics, opens |-> opens]

\* no dataset
None == << >>

\* xr.open_dataset: a new dataset object, the n-th one made from the file
OpenDataset(diag, c) ==
    LET h == << diag, c.opens[diag] + 1 >>
    IN  [status |-> "ok", handle |-> h, hit |-> FALSE,
         cache |-> [diagnostics |-> (diag :> h) @@ c.diagnostics,
                    opens |-> [c.opens EXCEPT ![diag] = @ + 1]]]

LoadDiagnostic_AlwaysOpen(diag, c) ==
    IF diag \notin files
    THEN [status |-> "NotFound", handle |-> None, hit |-> FALSE, cache |-> c]
    ELSE OpenDataset(diag, c)

\* output.py:34-50: load_diagnostic on the cache c
LoadDiagnostic(diag, c) ==
    IF diag \in DOMAIN c.diagnostics
    THEN [status |-> "ok", handle |-> c.diagnostics[diag], hit |-> TRUE, cache |-> c]
    ELSE IF diag \notin files
    THEN [status |-> "NotFound", handle |-> None, hit |-> FALSE, cache |-> c]
    ELSE OpenDataset(diag, c)

\* land_month['time'].to_index().to_datetimeindex(): every raw stamp becomes
\* the Gregorian timestamp with the same fields
ToDatetimeIndex(axis) ==
    IF \E i \in DOMAIN axis : ~TimestampParses(axis[i])
    THEN [status |-> "BadDate", index |-> << >>]
    ELSE [status |-> "ok", index |-> [i \in DOMAIN axis |-> Timestamp(axis[i])]]

SupportedDiag_Any(diag) == TRUE

\* output.py:74: the diagnostics get_gregorian_index accepts
SupportedDiag(diag) == diag \in {"land_daily", "land_month"}

\* output.py:78-80: the index of the monthly diagnostic
MonthIndex(axis) == ToDatetimeIndex(axis)

\* output.py:66-96: get_gregorian_index on the cache c; past the check
\* every diagnostic but land_month is taken to be land_daily
GetGregorianIndex(diag, c) ==
    IF ~SupportedDiag(diag)
    THEN [status |-> "Unsupported", index |-> << >>, handle |-> None, hit |-> FALSE,
          cache |-> c]
    ELSE LET l == IF diag = "land_month" THEN LoadDiagnostic("land_month", c)
                  ELSE LoadDiagnostic("land_daily", c)
             r == IF diag = "land_month" THEN MonthIndex(MonthAxis)
                  ELSE ReconcileDaily(dailyAxis[1], dailyAxis[2])
         IN  IF l.status # "ok"
             THEN [status |-> l.status, index |-> << >>, handle |-> None, hit |-> FALSE,
                   cache |-> l.cache]
             ELSE [status |-> r.status, index |-> r.index, handle |-> l.handle,
                   hit |-> l.hit, cache |-> l.cache]

DimSize(diag, dim) ==
    CASE dim = "time" -> TimeLength(diag)
      [] dim = "zfull_soil" -> Len(SoilLevels)
      [] dim = "cohort" -> NCohorts
      [] OTHER -> 1

RECURSIVE Product(_, _)
Product(diag, dims) ==
    IF dims = {} THEN 1
    ELSE LET x == CHOOSE x \in dims : TRUE
         IN  DimSize(diag, x) * Product(diag, dims \ {x})

\* output.py:143: the rows of diagnostic[names].isel(grid_index=0).to_dataframe(),
\* one per point of the remaining dims
FrameRows(diag, names) ==
    Product(diag, UNION {Catalog[names[i]] : i \in DOMAIN names} \ {"grid_index"})

IndexFits_Always(rows, index) == TRUE

\* output.py:144, 154: pandas refuses an index whose length is not the row count
IndexFits(rows, index) == rows = Len(index)

Failed(status) == [status |-> status, index |-> << >>, columns |-> << >>, rows |-> 0]

\* output.py:143-147, 151-156: a frame read from the dataset and re-indexed
\* by the gregorian index g; readable tells whether the values of the
\* dataset can be read
Frame(rows, columns, g, readable) ==
    IF ~readable THEN Failed("Closed")
    ELSE IF g.status # "ok" THEN Failed(g.status)
    ELSE IF ~IndexFits(rows, g.index) THEN Failed("LengthMismatch")
    ELSE [status |-> "ok", index |-> g.index, columns |-> columns, rows |-> rows]

\* output.py:146: the columns of the normal frame
NormalColumns(normal) ==
    LET kept == SelectSeq(normal, LAMBDA v : v \notin {"grid_index", "geolon_t", "geolat_t"})
    IN  [i \in DOMAIN kept |-> << kept[i] >>]

\* output.py:155: one column per depth, named "<variable> <depth>"
SoilColumns(soil_var) == [i \in DOMAIN SoilLevels |-> << soil_var, SoilLevels[i] >>]

\* output.py:140-156: data_frames, as far as they get built
DataFrames(diag, data_groups, g, readable) ==
    (IF data_groups.normal # << >>
     THEN << Frame(FrameRows(diag, data_groups.normal),
                   NormalColumns(data_groups.normal), g, readable) >>
     ELSE << >>)
    \o [i \in DOMAIN data_groups.soil |->
           Frame(TimeLength(diag), SoilColumns(data_groups.soil[i]), g, readable)]

\* output.py:158-160: the warning for the radiation group
RadiationWarning(data_groups) ==
    IF data_groups.radiation # << >>
    THEN << << data_groups.radiation, "not implemented" >> >>
    ELSE << >>

RECURSIVE Flatten(_)
Flatten(ss) == IF ss = << >> THEN << >> ELSE Head(ss) \o Flatten(Tail(ss))

NoFrames_AtMostOne(data_frames) == Len(data_frames) <= 1

\* output.py:163-166: nothing to concatenate
NoFrames(data_frames) == data_frames = << >>

\* output.py:98-168: what get_data returns or raises, given the result l of
\* load_diagnostic, the groups and the frames
Returned(l, loop_warnings, data_groups, data_frames) ==
    LET bad == {i \in DOMAIN data_frames : data_frames[i].status # "ok"}
        first_bad == CHOOSE i \in bad : \A j \in bad : i <= j
        none == [status |-> "none", handle |-> l.handle, hit |-> l.hit, index |-> << >>,
                 columns |-> << >>, rows |-> << >>, warnings |-> << >>]
    IN  IF l.status # "ok" THEN [none EXCEPT !.status = l.status]
        ELSE IF bad # {}
        THEN [none EXCEPT !.status = data_frames[first_bad].status,
                          !.warnings = loop_warnings]
        ELSE IF NoFrames(data_frames)
        THEN [none EXCEPT !.status = "NoData",
                          !.warnings = loop_warnings \o RadiationWarning(data_groups)]
        ELSE [none EXCEPT !.status = "ok",
                          !.index = data_frames[1].index,
                          !.columns = Flatten([i \in DOMAIN data_frames |->
                                                  data_frames[i].columns]),
                          !.rows = [i \in DOMAIN data_frames |-> data_frames[i].rows],
                          !.warnings = loop_warnings \o RadiationWarning(data_groups)]

CloseAll_FirstOnly(diags, cl) ==
    IF DOMAIN diags = {} THEN cl
    ELSE cl \cup {diags[CHOOSE d \in DOMAIN diags : TRUE]}

\* output.py:174-175: the handles closed once close() has run; closing a
\* dataset that is already closed does nothing
CloseAll(diags, cl) == cl \cup {diags[d] : d \in DOMAIN diags}

CacheAfterClose_Cleared(diags) == << >>

\* output.py:174-175: self.diagnostics once close() has run; the loop reads
\* the values of the dictionary and takes no entry out of it
CacheAfterClose(diags) == diags

Call(op, diag, vs, r) ==
    [op |-> op, diag |-> diag, vars |-> vs, status |-> r.status, handle |-> r.handle,
     hit |-> r.hit, index |-> r.index, columns |-> r.columns, rows |-> r.rows, warnings |-> r.warnings]

NoCall ==
    [op |-> "none", diag |-> "", vars |-> << >>, status |-> "none", handle |-> None,
     hit |-> FALSE, index |-> << >>, columns |-> << >>, rows |-> << >>, warnings |-> << >>]

OutputInit ==
    /\ files \in Histories
    /\ dailyAxis \in DailyAxes
    /\ diagnostics = << >>
    /\ opens = [d \in DiagNames |-> 0]
    /\ closed = {}
    /\ last = NoCall

\* the accessor while another component is checked
OutputIdle ==
    /\ files = {}
    /\ dailyAxis = << Stamp(1900, 3, 1, 12), Stamp(1900, 3, 1, 12) >>
    /\ diagnostics = << >>
    /\ opens = [d \in DiagNames |-> 0]
    /\ closed = {}
    /\ last = NoCall

\* load_diagnostic(diag)
OpenDiagnostic(diag) ==
    LET l == LoadDiagnostic(diag, Cache)
    IN  /\ last = NoCall
        /\ diagnostics' = l.cache.diagnostics
        /\ opens' = l.cache.opens
        /\ last' = [NoCall EXCEPT !.op = "load_diagnostic", !.diag = diag,
                                  !.status = l.status, !.handle = l.handle,
                                  !.hit = l.hit]
        /\ UNCHANGED << files, dailyAxis, closed >>

\* get_variables(diag), output.py:52-64
GetVariables(diag) ==
    LET l == LoadDiagnostic(diag, Cache)
    IN  /\ last = NoCall
        /\ diagnostics' = l.cache.diagnostics
        /\ opens' = l.cache.opens
        /\ last' = [NoCall EXCEPT !.op = "get_variables", !.diag = diag,
                                  !.status = l.status, !.handle = l.handle,
                                  !.hit = l.hit,
                                  !.columns = IF l.status = "ok" THEN DataVars ELSE << >>]
        /\ UNCHANGED << files, dailyAxis, closed >>

\* get_gregorian_index(diag)
GregorianIndex(diag) ==
    LET g == GetGregorianIndex(diag, Cache)
    IN  /\ last = NoCall
        /\ diagnostics' = g.cache.diagnostics
        /\ opens' = g.cache.opens
        /\ last' = [NoCall EXCEPT !.op = "get_gregorian_index", !.diag = diag,
                                  !.status = g.status, !.handle = g.handle,
                                  !.hit = g.hit, !.index = g.index]
        /\ UNCHANGED << files, dailyAxis, closed >>

\* get_data(vs, diag), output.py:98-168; the values of a dataset that was
\* closed may or may not be readable
GetData(vs, diag) ==
    \E readable \in BOOLEAN :
        /\ last = NoCall
        /\ ~readable => (diag \in DOMAIN diagnostics /\ diagnostics[diag] \in closed)
        /\ \E l \in {LoadDiagnostic(diag, Cache)} :
           \E data_groups \in {DataGroups(vs, Catalog)} :
           \E g \in {GetGregorianIndex(diag, l.cache)} :
           \E data_frames \in {DataFrames(diag, data_groups, g, readable)} :
           \E r \in {Returned(l, LoopWarnings(vs, Catalog), data_groups, data_frames)} :
           \E after \in {IF l.status = "ok" /\ readable /\ data_frames # << >>
                          THEN g.cache ELSE l.cache} :
               /\ diagnostics' = after.diagnostics
               /\ opens' = after.opens
               /\ last' = Call("get_data", diag, vs, r)
        /\ UNCHANGED << files, dailyAxis, closed >>

\* close(); hit tells that the call found nothing left to close
Close ==
    /\ last = NoCall
    /\ closed' = CloseAll(diagnostics, closed)
    /\ last' = [NoCall EXCEPT !.op = "close", !.status = "ok",
                              !.hit = CloseAll(diagnostics, closed) = closed]
    /\ diagnostics' = CacheAfterClose(diagnostics)
    /\ UNCHANGED << files, dailyAxis, opens >>

\* the caller takes the result of the call and goes on
Return ==
    /\ last # NoCall
    /\ last' = NoCall
    /\ UNCHANGED << files, dailyAxis, diagnostics, opens, closed >>

otherVars == << calVars, clsVarsAll, forcingVars, pathVars, gamutVars >>

Next ==
    \/ \E diag \in DiagNames : OpenDiagnostic(diag) /\ UNCHANGED otherVars
    \/ \E diag \in DiagNames : GetVariables(diag) /\ UNCHANGED otherVars
    \/ \E diag \in DiagNames : GregorianIndex(diag) /\ UNCHANGED otherVars
    \/ \E diag \in DiagNames, vs \in VarLists : GetData(vs, diag) /\ UNCHANGED otherVars
    \/ Close /\ UNCHANGED otherVars
    \/ Return /\ UNCHANGED otherVars

\* the calendar reconciliation while another component is checked
CalIdle ==
    /\ calFirst = Stamp(1900, 3, 1, 12)
    /\ calLast = Stamp(1900, 3, 1, 12)
    /\ calOut = NoResult

Init == OutputInit /\ CalIdle /\ ClsIdle /\ ForcingIdle /\ PathIdle /\ GamutIdle

Spec == Init /\ [][Next]_vars

-----------------------------------------------------------------------------
(* The calendar reconciliation on its own.                                 *)

CalInit ==
    /\ \E p \in RawAxes : calFirst = p[1] /\ calLast = p[2]
    /\ calOut = NoResult
    /\ OutputIdle /\ ClsIdle /\ ForcingIdle /\ PathIdle /\ GamutIdle

\* get_gregorian_index applied to a daily axis
Reconcile ==
    /\ calOut = NoResult
    /\ calOut' = ReconcileDaily(calFirst, calLast)
    /\ UNCHANGED << calFirst, calLast >>
    /\ UNCHANGED << outputVars, clsVarsAll, forcingVars, pathVars, gamutVars >>

CalNext == Reconcile

SpecCalendar == CalInit /\ [][CalNext]_vars

-----------------------------------------------------------------------------
(* The variable classification on its own.                                 *)

ClassifyInit == ClsInit /\ OutputIdle /\ CalIdle /\ ForcingIdle /\ PathIdle /\ GamutIdle

ClassifyNext ==
    ClassifyRequest /\ UNCHANGED << outputVars, calVars, forcingVars, pathVars, gamutVars >>

SpecClassify == ClassifyInit /\ [][ClassifyNext]_vars

-----------------------------------------------------------------------------
(* The forcing accessor on its own.                                        *)

FInit == ForcingInit /\ OutputIdle /\ CalIdle /\ ClsIdle /\ PathIdle /\ GamutIdle

idleVars == << outputVars, calVars, clsVarsAll, pathVars, gamutVars >>

FNext ==
    \/ \E var_name \in ForcingNames : ForcingGetData(var_name) /\ UNCHANGED idleVars
    \/ \E var_name \in ForcingNames, spin_up_years \in SpinUpYears :
           GetLoopedData(var_name, spin_up_years) /\ UNCHANGED idleVars
    \/ ForcingClose /\ UNCHANGED idleVars
    \/ ForcingReturn /\ UNCHANGED idleVars

SpecForcing == FInit /\ [][FNext]_vars

-----------------------------------------------------------------------------
(* The construction of the accessors on its own.                           *)

PInit == PathInit /\ OutputIdle /\ CalIdle /\ ClsIdle /\ ForcingIdle /\ GamutIdle

PNext ==
    \/ NewModelOutput /\ UNCHANGED << calVars, clsVarsAll, forcingVars, gamutVars >>
    \/ NewForcing /\ UNCHANGED << outputVars, calVars, clsVarsAll, gamutVars >>

SpecPaths == PInit /\ [][PNext]_vars

-----------------------------------------------------------------------------
(* The observation accessor on its own.                                    *)

GInit == GamutInit /\ OutputIdle /\ CalIdle /\ ClsIdle /\ ForcingIdle /\ PathIdle

GNext ==
    FindFiles /\ UNCHANGED << outputVars, calVars, clsVarsAll, forcingVars, pathVars >>

SpecGamut == GInit /\ [][GNext]_vars

-----------------------------------------------------------------------------
(* Properties of the accessor's cache.                                     *)

OpenHandles(d) == {k \in 1..opens[d] : << d, k >> \notin closed}

\* C1: for one accessor there is at most one open dataset handle per
\* diagnostic name, the file of a name is opened at most once, and every
\* request for a name returns the handle its first request returned.
C1_OneHandlePerName ==
    /\ \A d \in DiagNames : opens[d] <= 1 /\ Cardinality(OpenHandles(d)) <= 1
    /\ \A d \in DOMAIN diagnostics : diagnostics[d] = << d, 1 >>
    /\ (last.op \in {"load_diagnostic", "get_variables", "get_data", "get_gregorian_index"}
            /\ last.handle # None)
        => last.handle = << last.diag, 1 >>

\* a request for a diagnostic that was opened before
C1_Witness ==
    /\ last.op = "load_diagnostic"
    /\ last.hit
    /\ last.handle = << last.diag, 1 >>

\* C2: close() does not raise and leaves no cached handle open, whether
\* handles were opened or not and whether they were closed before or not.
C2_CloseReleasesAll ==
    last.op = "close" =>
        /\ last.status = "ok"
        /\ \A d \in DOMAIN diagnostics : diagnostics[d] \in closed
        /\ \A d \in DiagNames : OpenHandles(d) = {}

\* close() called again with two handles in the cache, both closed before
C2_Witness ==
    /\ last.op = "close"
    /\ last.hit
    /\ Cardinality(DOMAIN diagnostics) >= 2
    /\ \A d \in DOMAIN diagnostics : diagnostics[d] \in closed

\* the calls that load a diagnostic
Loads == {"load_diagnostic", "get_variables", "get_gregorian_index", "get_data"}

\* C13: close() releases the cached handles and takes none out of the
\* cache: no step makes the set of cached names smaller, replaces a cached
\* handle, reopens the file of a cached name or reopens a released handle,
\* and a call that loads a diagnostic whose cached handle was released
\* returns that same released handle without opening the file again.
C13_CloseKeepsCache ==
    [][/\ DOMAIN diagnostics \subseteq DOMAIN diagnostics'
       /\ \A d \in DOMAIN diagnostics :
              /\ diagnostics'[d] = diagnostics[d]
              /\ opens'[d] = opens[d]
       /\ closed \subseteq closed'
       /\ last'.op = "close" =>
              /\ DOMAIN diagnostics' = DOMAIN diagnostics
              /\ \A d \in DOMAIN diagnostics : diagnostics[d] \in closed'
       /\ (/\ last'.op \in Loads
           /\ last'.status # "Unsupported"
           /\ last'.diag \in DOMAIN diagnostics
           /\ diagnostics[last'.diag] \in closed) =>
              /\ last'.hit
              /\ last'.handle = diagnostics[last'.diag]
              /\ last'.handle \in closed'
              /\ opens'[last'.diag] = 1]_vars

\* get_data on a diagnostic that was opened and then closed: it is served
\* from the released handle, and the file has been opened once
C13_Witness ==
    /\ last.op = "get_data"
    /\ last.hit
    /\ last.handle \in closed
    /\ last.handle = diagnostics[last.diag]
    /\ opens[last.diag] = 1

-----------------------------------------------------------------------------
(* Properties of get_data and get_gregorian_index.                         *)

GregorianDay(raw) == GregorianOrdinal(raw.y, raw.m, raw.d)

Requested == {last.vars[i] : i \in DOMAIN last.vars}

\* a requested name that the loop only warns about
Rejected(v) ==
    \/ v \notin DOMAIN Catalog
    \/ /\ "zfull_soil" \notin Catalog[v]
       /\ "band" \notin Catalog[v]
       /\ ~({"grid_index", "time"} \subseteq Catalog[v])

IsRadiation(v) ==
    v \in DOMAIN Catalog /\ "zfull_soil" \notin Catalog[v] /\ "band" \in Catalog[v]

IsSoil(v) == v \in DOMAIN Catalog /\ "zfull_soil" \in Catalog[v]

\* a requested name that get_data builds columns for
Materialized(v) == ~Rejected(v) /\ ~IsRadiation(v)

Columns == {last.columns[i] : i \in DOMAIN last.columns}

Warned == {last.warnings[i][1] : i \in DOMAIN last.warnings}

\* what get_data gives in this state for the list vs less its rejected names
WithoutRejected(vs, diag) ==
    LET kept == SelectSeq(vs, LAMBDA v : ~Rejected(v))
        data_groups == DataGroups(kept, Catalog)
        g == GetGregorianIndex(diag, Cache)
    IN  Returned(LoadDiagnostic(diag, Cache), LoopWarnings(kept, Catalog), data_groups,
                 DataFrames(diag, data_groups, g, TRUE))

\* get_data was called and its diagnostic could be opened
GotData == last.op = "get_data" /\ last.status # "NotFound"

RowsRead(diag, vs) ==
    LET data_groups == DataGroups(vs, Catalog)
    IN  (IF data_groups.normal # << >>
         THEN {FrameRows(diag, data_groups.normal)} ELSE {})
        \cup (IF data_groups.soil # << >> THEN {TimeLength(diag)} ELSE {})

\* C7: a table get_data returns has the diagnostic's gregorian index as
\* its row index, and each of its column groups has as many rows as that
\* index; when a group's row count differs from the length of the index,
\* get_data raises.
C7_SharedIndex ==
    GotData =>
        LET g == GetGregorianIndex(last.diag, Cache)
        IN  /\ last.status = "ok" =>
                /\ g.status = "ok"
                /\ last.index = g.index
                /\ \A i \in DOMAIN last.rows : last.rows[i] = Len(last.index)
                /\ Len(last.rows) >= 1
            /\ (\E n \in RowsRead(last.diag, last.vars) : n # Len(g.index))
                => last.status \notin {"ok", "NoData"}

\* get_data raised because the index and the rows differ in length
C7_Witness ==
    /\ last.op = "get_data"
    /\ last.status = "LengthMismatch"
    /\ \E n \in RowsRead(last.diag, last.vars) :
           n # Len(GetGregorianIndex(last.diag, Cache).index)

-----------------------------------------------------------------------------
(* Properties of the calendar reconciliation.                              *)

IsGregorianDay(raw) == raw.d <= DaysInMonth(IsLeapGregorian(raw.y), raw.m)

\* C5: for first and last raw timestamps that name Gregorian days, the
\* reconciliation returns timestamps all at noon, one day apart, starting
\* on the first timestamp's day; their number is (end day - start day) + 1
\* when the start is on or after 1900-03-01 and one more than that when
\* the start is before 1900-03-01.
C5_ReconcileLength ==
    (calOut # NoResult /\ IsGregorianDay(calFirst) /\ IsGregorianDay(calLast)) =>
        LET idx == calOut.index
            naive == GregorianDay(calLast) - GregorianDay(calFirst) + 1
        IN  /\ calOut.status = "ok"
            /\ \A i \in DOMAIN idx : idx[i] % 24 = 12
            /\ \A i \in 1..(Len(idx) - 1) : idx[i + 1] = idx[i] + 24
            /\ Len(idx) >= 1
            /\ idx[1] \div 24 = GregorianDay(calFirst) - 1
            /\ Len(idx) = IF GregorianDay(calFirst) >= GregorianOrdinal(1900, 3, 1)
                          THEN naive ELSE naive + 1

\* a run that starts before 1900-03-01 and whose index is a day longer than
\* the days from its first to its last day
C5_Witness ==
    /\ calOut.status = "ok"
    /\ calFirst.y = 1900 /\ calFirst.m = 2
    /\ IsGregorianDay(calLast)
    /\ Len(calOut.index) = GregorianDay(calLast) - GregorianDay(calFirst) + 2

\* C6: the corrected index of a daily axis with one entry per day of the
\* model calendar is as long as the axis, wherever its first and last day
\* lie relative to 1900-03-01.
C6_IndexAsLongAsAxis ==
    calOut # NoResult =>
        /\ calOut.status = "ok"
        /\ Len(calOut.index) = RawAxisLength(calFirst, calLast)

-----------------------------------------------------------------------------
(* Properties of the classification.                                       *)

\* the group the stated rule gives a requested name
StatedGroup(v, catalog) ==
    IF v \notin DOMAIN catalog THEN "not found"
    ELSE IF "zfull_soil" \in catalog[v] THEN "soil"
    ELSE IF "band" \in catalog[v] THEN "radiation"
    ELSE IF catalog[v] = {"grid_index", "time"} THEN "normal"
    ELSE "unsupported"

Members(xs) == {xs[i] : i \in DOMAIN xs}

\* the groups the loop put a requested name in
GroupsHolding(v) ==
    {g \in {"normal", "soil", "radiation"} : v \in Members(clsOut.data_groups[g])}
        \cup {w[2] : w \in {x \in Members(clsOut.warnings) : x[1] = v}}

\* C4: every requested name is in exactly one group: rejected (not found)
\* when absent from the catalog, depth_profile when its dims hold the depth
\* axis, else multi_band when they hold the band axis, else time_series when
\* they are the spatial-index axis and the time axis and nothing else, and
\* rejected (unsupported shape) otherwise.
C4_ClassificationRule ==
    clsOut # NoGroups =>
        \A v \in Members(clsVars) : GroupsHolding(v) = {StatedGroup(v, clsCatalog)}

-----------------------------------------------------------------------------
(* Properties of the forcing accessor.                                     *)

\* C9: get_looped_data with a spin-up period that is no multiple of 10
\* raises the invalid-argument error, for every variable name, before it
\* reads the dataset, and leaves the dataset handle as it was.
C9_SpinUpValidatedFirst ==
    [][(fLast'.op = "get_looped_data" /\ fLast'.spin_up_years % 10 # 0) =>
          /\ fLast'.result.status = "InvalidArgument"
          /\ ~fLast'.result.read
          /\ netcdf' = netcdf
          /\ netcdfOpen' = netcdfOpen]_vars

\* the call with 15 years and a name the dataset does not have
C9_Witness ==
    /\ fLast.op = "get_looped_data"
    /\ fLast.spin_up_years = 15
    /\ fLast.var_name \notin ForcingDataVars
    /\ fLast.result.status = "InvalidArgument"

\* C10: for a variable of an open dataset and every multiple of 10, 0
\* included, get_looped_data returns (spin_up_years / 10) times (daily
\* samples - 1) values with a contiguous daily index at noon, and the same
\* result as the call before it with the same arguments.
C10_LoopedLength ==
    (/\ fLast.op = "get_looped_data"
     /\ netcdfOpen
     /\ fLast.var_name \in ForcingDataVars
     /\ fLast.spin_up_years % 10 = 0) =>
        LET r == fLast.result
            days == netcdf[Len(netcdf)].t \div 24 - netcdf[1].t \div 24 + 1
        IN  /\ r.status = "ok"
            /\ Len(r.values) = (fLast.spin_up_years \div 10) * (days - 1)
            /\ Len(r.index) = Len(r.values)
            /\ \A i \in DOMAIN r.index : r.index[i] % 24 = 12
            /\ \A i \in 1..(Len(r.index) - 1) : r.index[i + 1] = r.index[i] + 24
            /\ fLast.before # NoSeries => fLast.before = r

-----------------------------------------------------------------------------
(* Properties of the paths.                                                *)

\* the site name lowercased with all spaces removed
StatedSite(site) ==
    LET lowered == [i \in DOMAIN site |-> Lower(site[i])]
    IN  SelectSeq(lowered, LAMBDA ch : ch # " ")

\* <root>/<site>/<site>_[spinup_]<forcing_id>_<version>
StatedStem(root) ==
    LET site == StatedSite(pathArgs.site)
    IN  root \o << "/" >> \o site \o << "/" >> \o site \o << "_" >>
            \o (IF pathArgs.spinup THEN << "s", "p", "i", "n", "u", "p", "_" >> ELSE << >>)
            \o << "s" >> \o pathArgs.forcing_string
            \o << "_", "v" >> \o pathArgs.version

\* C11: for every site, forcing id, version and spinup flag the path of the
\* model-output accessor is <root>/<site>/<site>_[spinup_]<forcing_id>_<version>
\* followed by /history and the path of the forcing accessor is the same
\* form followed by .nc, with the site lowercased and stripped of spaces,
\* spinup_ present exactly when spinup is set, and the forcing id and the
\* version present with and without spinup.
C11_PathForm ==
    /\ historyPath # NoPath =>
           historyPath = StatedStem(OUTPUT_PATH)
                             \o << "/", "h", "i", "s", "t", "o", "r", "y" >>
    /\ forcingPath # NoPath =>
           forcingPath = StatedStem(FORCING_PATH) \o << ".", "n", "c" >>

-----------------------------------------------------------------------------
(* Properties of the observation accessor.                                 *)

\* C12: find_files on an accessor whose site has no abbreviation raises
\* the error of the missing mapping whatever the site's directory holds,
\* the empty directory included, and never returns a list of files.
C12_UnmappedSiteFails ==
    (/\ gamutOut # NoFiles
     /\ gamutSite \notin DOMAIN site_abbrev
     /\ gamutDir.exists) =>
        gamutOut.status = "KeyError"

=============================================================================
